---- MODULE Spec2Model ----
(***************************************************************************)
(* TradeRiskGuard-AI: the risk scorer (core/risk_scorer.py) and the Deriv  *)
(* sync reconciler (api/routers/integrations.py, api/utils/deriv_client.py)*)
(*                                                                         *)
(* Numbers: a score is kept in hundredths (7938 is 79.38), the value that  *)
(* round(raw_score, 2) returns; intermediate values of calculate_score are *)
(* kept exactly, in the unit named next to each operator.                  *)
(***************************************************************************)
EXTENDS Integers, Naturals, Sequences, FiniteSets, TLC

VARIABLES risk_details, score_result,
          metrics, symbol_counts, risk_results,
          df, calculator,
          document, parsed,
          connections, deriv_trades, sync_logs, task

scorerVars == <<risk_details, score_result>>

rulesVars == <<metrics, symbol_counts, risk_results>>

calcVars == <<df, calculator>>

parserVars == <<document, parsed>>

\* the variables of the synchronous analysis steps
pureVars == <<scorerVars, rulesVars, calcVars, parserVars>>

syncVars == <<connections, deriv_trades, sync_logs, task>>

vars == <<risk_details, score_result,
          metrics, symbol_counts, risk_results,
          df, calculator,
          document, parsed,
          connections, deriv_trades, sync_logs, task>>

-----------------------------------------------------------------------------
(* RiskScorer                                                              *)

\* the keys of RiskScorer.risk_weights
WeightedKinds ==
    {"over_leverage", "no_stop_loss", "high_drawdown", "revenge_trading",
     "poor_rr_ratio", "low_win_rate", "concentration_risk", "overtrading"}

\* a finding kind that is not a key of risk_weights (the add-on detector)
OtherKinds == {"event_trading"}

Kinds == WeightedKinds \cup OtherKinds

risk_weights ==
    [k \in WeightedKinds |->
        CASE k = "over_leverage"      -> 30
          [] k = "no_stop_loss"       -> 25
          [] k = "high_drawdown"      -> 20
          [] k = "revenge_trading"    -> 15
          [] k = "poor_rr_ratio"      -> 10
          [] k = "low_win_rate"       -> 5
          [] k = "concentration_risk" -> 5
          [] k = "overtrading"        -> 5]

Grades == <<"A", "B", "C", "D">>

\* grade -> (lower, upper), in whole points, in the dict's insertion order
grade_boundaries ==
    [g \in {"A", "B", "C", "D"} |->
        CASE g = "A" -> <<80, 100>>
          [] g = "B" -> <<60, 79>>
          [] g = "C" -> <<40, 59>>
          [] g = "D" -> <<0, 39>>]

\* severities a finding of the input may carry
Severities == {0, 50, 100}

\* the inputs of calculate_score: a dict kind -> severity
RiskDetailsInputs ==
    UNION {[K -> Severities] : K \in SUBSET Kinds}

RECURSIVE SumOver(_, _)
SumOver(f, S) ==
    IF S = {} THEN 0
    ELSE LET k == CHOOSE x \in S : TRUE
         IN  f[k] + SumOver(f, S \ {k})

\* the findings calculate_score scores: the keys found in risk_weights
ScoredKinds(rd) == DOMAIN rd \cap WeightedKinds

\* risk_contribution = (severity / 100) * weight, in hundredths
risk_contribution(rd, k) == rd[k] * risk_weights[k]

\* total_risk_impact = sum(weighted_scores), in hundredths
total_risk_impact(rd) ==
    SumOver([k \in ScoredKinds(rd) |-> risk_contribution(rd, k)], ScoredKinds(rd))

\* total_weight_used, in whole points
total_weight_used(rd) ==
    SumOver([k \in ScoredKinds(rd) |-> risk_weights[k]], ScoredKinds(rd))

Max(a, b) == IF a >= b THEN a ELSE b

\* raw_score without its floor at 0
raw_score_unfloored(rd) == 10000 - total_risk_impact(rd)

\* raw_score = max(0, 100 - total_risk_impact), in hundredths
raw_score(rd) == Max(0, 10000 - total_risk_impact(rd))

\* the raw score taken as it is, without the unused-weight adjustment
adjusted_score_unblended(rd) == raw_score(rd) * 100

\* the raw score after the unused-weight adjustment, in ten-thousandths
adjusted_score(rd) ==
    LET used == total_weight_used(rd)
    IN  IF used < 100
        THEN raw_score(rd) * used + 10000 * (100 - used)
        ELSE raw_score(rd) * 100

\* round(x, 2) of a value given in ten-thousandths: hundredths, ties to even
Round2(x) ==
    LET q == x \div 100
        r == x % 100
    IN  IF r > 50 \/ (r = 50 /\ q % 2 = 1) THEN q + 1 ELSE q

RECURSIVE GradeFrom(_, _)
GradeFrom(score, i) ==
    IF i > Len(Grades) THEN "D"
    ELSE LET b == grade_boundaries[Grades[i]]
         IN  IF b[1] * 100 <= score /\ score <= b[2] * 100
             THEN Grades[i]
             ELSE GradeFrom(score, i + 1)

\* _get_grade: the first band that contains the score, 'D' when none does
get_grade(score) == GradeFrom(score, 1)

\* the keys of risk_details in the order the rule engine inserts them, the
\* order in which calculate_score fills score_breakdown
KindOrder ==
    <<"over_leverage", "no_stop_loss", "high_drawdown", "revenge_trading",
      "poor_rr_ratio", "low_win_rate", "concentration_risk", "overtrading">>

Position(k) == CHOOSE j \in DOMAIN KindOrder : KindOrder[j] = k

\* sorted(score_breakdown, key=contribution, reverse=True)[:n] of the
\* entries S: the sort is stable, equal contributions keep their order
RECURSIVE TopRisks(_, _, _)
TopRisks(rd, S, n) ==
    IF n = 0 \/ S = {} THEN << >>
    ELSE LET first == CHOOSE k \in S :
                          \A o \in S \ {k} :
                              \/ risk_contribution(rd, k) > risk_contribution(rd, o)
                              \/ /\ risk_contribution(rd, k) = risk_contribution(rd, o)
                                 /\ Position(k) < Position(o)
         IN  <<first>> \o TopRisks(rd, S \ {first}, n - 1)

\* _create_risk_breakdown: the entries counted by severity
create_risk_breakdown(rd, S) ==
    [high   |-> Cardinality({k \in S : rd[k] >= 70}),
     medium |-> Cardinality({k \in S : rd[k] >= 40 /\ rd[k] < 70}),
     low    |-> Cardinality({k \in S : rd[k] < 40})]

\* _perfect_score
perfect_score ==
    [score |-> 9500, grade |-> "A", breakdown |-> {},
     total_risks |-> 0, top_risks |-> << >>,
     risk_breakdown |-> [low |-> 100, medium |-> 0, high |-> 0]]

\* calculate_score
calculate_score(rd) ==
    IF rd = << >> THEN perfect_score
    ELSE LET final_score == Round2(adjusted_score(rd))
         IN  [score          |-> final_score,
              grade          |-> get_grade(final_score),
              breakdown      |-> ScoredKinds(rd),
              total_risks    |-> Cardinality(DOMAIN rd),
              top_risks      |-> TopRisks(rd, ScoredKinds(rd), 3),
              risk_breakdown |-> create_risk_breakdown(rd, ScoredKinds(rd))]

NoResult ==
    [score |-> -1, grade |-> "none", breakdown |-> {},
     total_risks |-> -1, top_risks |-> << >>,
     risk_breakdown |-> [low |-> 0, medium |-> 0, high |-> 0]]

-----------------------------------------------------------------------------
(* RiskRuleEngine                                                          *)
(*                                                                         *)
(* Percentages, ratios, hours and severities are kept in hundredths (3500  *)
(* is 35.0); total_trades is a count. A metric whose key is not in the     *)
(* metrics dict is kept as Absent. The DataFrame is kept as the pair       *)
(* <<rows of the most frequent symbol, rows>>, <<0, 0>> when there is no   *)
(* DataFrame, no symbol column or no row.                                  *)

Absent == -1

\* RiskRuleEngine.thresholds
thresholds ==
    [max_position_size_pct   |-> 200,
     min_win_rate            |-> 4000,
     max_drawdown_pct        |-> 2000,
     min_rr_ratio            |-> 100,
     max_revenge_trading_pct |-> 1000,
     min_sl_usage_rate       |-> 8000]

\* the metrics dicts given to the engine: each metric absent, at its
\* threshold, and past it; the ratios of the values chosen are exact in
\* hundredths except for avg_position_size_pct 2.1
MetricsInputs ==
    [avg_position_size_pct    : {Absent, 200, 210, 350, 650},
     sl_usage_rate            : {Absent, 6500, 8000},
     max_drawdown_pct         : {Absent, 2000, 3500, 6000},
     revenge_trading_pct      : {Absent, 1000, 2000},
     risk_reward_ratio        : {Absent, 80, 100},
     win_rate                 : {Absent, 0, 3500, 4000},
     avg_trade_duration_hours : {Absent, 50, 100},
     total_trades             : {Absent, 21, 150, 153, 400}]

\* <<rows of the most frequent symbol, rows>> of the DataFrame: none, 50%,
\* 65% and 90% of the trades in one symbol
SymbolCountsInputs == {<<0, 0>>, <<1, 2>>, <<13, 20>>, <<9, 10>>}

Min(a, b) == IF a <= b THEN a ELSE b

\* round(n/d, 2 decimals) for n/d in hundredths: the nearest integer to n/d,
\* a tie to the even one
RoundRatio(n, d) ==
    LET q == n \div d
        r == n % d
    IN  IF 2 * r > d \/ (2 * r = d /\ q % 2 = 1) THEN q + 1 ELSE q

\* _calculate_severity without the cap min(100, ...)
calculate_severity_uncapped(value, threshold, max_value) ==
    LET excess       == Max(0, value - threshold)
        range_excess == Max(0, max_value - threshold)
    IN  IF range_excess = 0
        THEN IF excess > 0 THEN 10000 ELSE 0
        ELSE RoundRatio(excess * 10000, range_excess)

\* _calculate_severity
calculate_severity(value, threshold, max_value) ==
    LET excess       == Max(0, value - threshold)
        range_excess == Max(0, max_value - threshold)
    IN  IF range_excess = 0
        THEN IF excess > 0 THEN 10000 ELSE 0
        ELSE IF excess >= range_excess
             THEN 10000
             ELSE RoundRatio(excess * 10000, range_excess)

\* the engine after __init__: detected_risks = [], risk_details = {}
NewEngine == [detected_risks |-> << >>, risk_details |-> << >>]

\* detected_risks.append(kind); risk_details[kind] = {'severity': severity, ...}
Detected(e, kind, severity) ==
    [detected_risks |-> Append(e.detected_risks, kind),
     risk_details   |-> [k \in DOMAIN e.risk_details \cup {kind} |->
                            IF k = kind THEN severity ELSE e.risk_details[k]]]

\* detect_position_size_risk
detect_position_size_risk(m, e) ==
    IF m.avg_position_size_pct # Absent
       /\ m.avg_position_size_pct > thresholds.max_position_size_pct
    THEN Detected(e, "over_leverage",
                  calculate_severity(m.avg_position_size_pct,
                                     thresholds.max_position_size_pct, 500))
    ELSE e

\* detect_stop_loss_risk
detect_stop_loss_risk(m, e) ==
    IF m.sl_usage_rate # Absent /\ m.sl_usage_rate < thresholds.min_sl_usage_rate
    THEN Detected(e, "no_stop_loss",
                  calculate_severity(thresholds.min_sl_usage_rate, m.sl_usage_rate,
                                     thresholds.min_sl_usage_rate))
    ELSE e

\* detect_drawdown_risk
detect_drawdown_risk(m, e) ==
    IF m.max_drawdown_pct # Absent /\ m.max_drawdown_pct > thresholds.max_drawdown_pct
    THEN Detected(e, "high_drawdown",
                  calculate_severity(m.max_drawdown_pct, thresholds.max_drawdown_pct, 5000))
    ELSE e

\* detect_revenge_trading_risk
detect_revenge_trading_risk(m, e) ==
    IF m.revenge_trading_pct # Absent
       /\ m.revenge_trading_pct > thresholds.max_revenge_trading_pct
    THEN Detected(e, "revenge_trading",
                  calculate_severity(m.revenge_trading_pct,
                                     thresholds.max_revenge_trading_pct, 3000))
    ELSE e

\* detect_rr_ratio_risk
detect_rr_ratio_risk(m, e) ==
    IF m.risk_reward_ratio # Absent /\ m.risk_reward_ratio < thresholds.min_rr_ratio
    THEN Detected(e, "poor_rr_ratio",
                  calculate_severity(thresholds.min_rr_ratio, m.risk_reward_ratio,
                                     thresholds.min_rr_ratio))
    ELSE e

\* the win-rate rule firing at the threshold too
detect_win_rate_risk_at_threshold(m, e) ==
    IF m.win_rate # Absent /\ m.win_rate <= thresholds.min_win_rate
    THEN Detected(e, "low_win_rate",
                  calculate_severity(thresholds.min_win_rate, m.win_rate,
                                     thresholds.min_win_rate))
    ELSE e

\* detect_win_rate_risk
detect_win_rate_risk(m, e) ==
    IF m.win_rate # Absent /\ m.win_rate < thresholds.min_win_rate
    THEN Detected(e, "low_win_rate",
                  calculate_severity(thresholds.min_win_rate, m.win_rate,
                                     thresholds.min_win_rate))
    ELSE e

\* top_symbol_pct = symbol_counts.iloc[0] / total_trades * 100
top_symbol_pct(sc) == (sc[1] * 10000) \div sc[2]

\* detect_concentration_risk
detect_concentration_risk(sc, e) ==
    IF sc[2] > 0 /\ top_symbol_pct(sc) > 5000
    THEN Detected(e, "concentration_risk",
                  calculate_severity(top_symbol_pct(sc), 5000, 8000))
    ELSE e

\* metrics.get('total_trades', 0)
total_trades(m) == IF m.total_trades = Absent THEN 0 ELSE m.total_trades

\* detect_overtrading_risk: trades_per_day = total_trades / 30, the rule
\* fires when it is above 5, with severity min(100, trades_per_day * 10)
detect_overtrading_risk(m, e) ==
    IF /\ m.avg_trade_duration_hours # Absent
       /\ m.avg_trade_duration_hours < 100
       /\ total_trades(m) > 20
       /\ total_trades(m) > 5 * 30
    THEN Detected(e, "overtrading", Min(10000, (total_trades(m) * 1000) \div 30))
    ELSE e

\* the rules in the order detect_all_risks calls them
Rules ==
    <<"position_size", "stop_loss", "drawdown", "revenge_trading",
      "rr_ratio", "win_rate", "concentration", "overtrading">>

\* one rule applied to the engine
DetectRule(rule, m, sc, e) ==
    CASE rule = "position_size"   -> detect_position_size_risk(m, e)
      [] rule = "stop_loss"       -> detect_stop_loss_risk(m, e)
      [] rule = "drawdown"        -> detect_drawdown_risk(m, e)
      [] rule = "revenge_trading" -> detect_revenge_trading_risk(m, e)
      [] rule = "rr_ratio"        -> detect_rr_ratio_risk(m, e)
      [] rule = "win_rate"        -> detect_win_rate_risk(m, e)
      [] rule = "concentration"   -> detect_concentration_risk(sc, e)
      [] rule = "overtrading"     -> detect_overtrading_risk(m, e)

\* the rules of order applied one after the other
RECURSIVE DetectInOrder(_, _, _, _)
DetectInOrder(order, m, sc, e) ==
    IF order = << >> THEN e
    ELSE DetectInOrder(Tail(order), m, sc, DetectRule(Head(order), m, sc, e))

\* the dict detect_all_risks returns
ResultOf(e) ==
    [detected_risks |-> e.detected_risks,
     risk_details   |-> e.risk_details,
     total_risks    |-> Len(e.detected_risks)]

\* detect_all_risks on a fresh engine
detect_all_risks(m, sc) == ResultOf(DetectInOrder(Rules, m, sc, NewEngine))

NoMetrics == [k \in {"none"} |-> Absent]

NoRiskResults == [detected_risks |-> << >>, risk_details |-> << >>, total_risks |-> -1]

\* no engine has been constructed
RulesIdle ==
    /\ metrics = NoMetrics
    /\ symbol_counts = <<0, 0>>
    /\ risk_results = NoRiskResults

\* the reverse of a sequence
Reversed(q) == [j \in 1..Len(q) |-> q[Len(q) + 1 - j]]

\* the orders in which the eight rules are called one by one on a fresh
\* engine, other than the order of detect_all_risks
OtherOrders == {Reversed(Rules), SubSeq(Rules, 5, 8) \o SubSeq(Rules, 1, 4)}

-----------------------------------------------------------------------------
(* TradeMetricsCalculator                                                  *)
(*                                                                         *)
(* The DataFrame is kept as its optional columns, the profit_loss of its   *)
(* rows and the account_balance_before of its rows. A quotient is kept     *)
(* exactly, as numerator and denominator; float('inf') is Infinity. Of the *)
(* metrics computed from lot sizes, stop losses and times only the keys    *)
(* are kept. A step that raises leaves the metrics computed before it in   *)
(* calculator.metrics.                                                     *)

MaxTrades == 4

OptionalColumns ==
    {"lot_size", "account_balance_before", "stop_loss", "entry_time", "exit_time"}

ProfitLossValues == {-30, -20, 0, 50, 75}

\* the account_balance_before of the rows: the same for all, 0 in the first
\* row, falling from row to row, 0 after the first row
BalancePatterns == {"flat", "zero_first", "falling", "zero_later"}

balance(pattern, j) ==
    CASE pattern = "flat"       -> 100
      [] pattern = "zero_first" -> IF j = 1 THEN 0 ELSE 100
      [] pattern = "falling"    -> 100 - 10 * (j - 1)
      [] pattern = "zero_later" -> IF j = 1 THEN 100 ELSE 0

\* the DataFrames given to the calculator
DataFrames ==
    {d \in [columns  : SUBSET OptionalColumns,
            profit_loss : UNION {[1..n -> ProfitLossValues] : n \in 0..MaxTrades},
            balances : BalancePatterns] :
        "account_balance_before" \notin d.columns => d.balances = "flat"}

Ratio(n, d) == [num |-> n, den |-> d]

Zero == Ratio(0, 1)

\* float('inf')
Infinity == Ratio(1, 0)

RECURSIVE SumSeq(_)
SumSeq(q) == IF q = << >> THEN 0 ELSE Head(q) + SumSeq(Tail(q))

Abs(x) == IF x < 0 THEN -x ELSE x

IsWin(x) == x > 0

IsLoss(x) == x < 0

\* df[df['profit_loss'] >= 0]['profit_loss']
winning_or_flat(d) ==
    LET IsFlatOrWin(x) == x >= 0
    IN  SelectSeq(d.profit_loss, IsFlatOrWin)

\* df[df['profit_loss'] > 0]['profit_loss']
winning(d) == SelectSeq(d.profit_loss, IsWin)

\* df[df['profit_loss'] < 0]['profit_loss']
losing(d) == SelectSeq(d.profit_loss, IsLoss)

\* compute_basic_metrics
compute_basic_metrics(d) ==
    LET total_trades_   == Len(d.profit_loss)
        winning_trades  == Len(winning(d))
        losing_trades   == Len(losing(d))
        total_profit    == SumSeq(winning(d))
        total_loss      == Abs(SumSeq(losing(d)))
    IN  [total_trades   |-> total_trades_,
         winning_trades |-> winning_trades,
         losing_trades  |-> losing_trades,
         win_rate       |-> IF total_trades_ > 0
                            THEN Ratio(winning_trades * 100, total_trades_)
                            ELSE Zero,
         total_profit   |-> total_profit,
         total_loss     |-> total_loss,
         net_profit     |-> SumSeq(d.profit_loss),
         avg_win        |-> IF winning_trades > 0
                            THEN Ratio(total_profit, winning_trades) ELSE Zero,
         avg_loss       |-> IF losing_trades > 0
                            THEN Ratio(total_loss, losing_trades) ELSE Zero,
         profit_factor  |-> IF total_loss # 0
                            THEN Ratio(total_profit, total_loss)
                            ELSE IF total_profit > 0 THEN Infinity ELSE Zero]

\* a > b for quotients with positive denominators
Greater(a, b) == a.num * b.den > b.num * a.den

\* compute_risk_metrics, the keys it adds besides risk_reward_ratio
risk_metric_keys(d) ==
    (IF {"lot_size", "account_balance_before"} \subseteq d.columns
     THEN {"avg_position_size_pct", "max_position_size_pct"} ELSE {})
    \cup (IF "stop_loss" \in d.columns THEN {"sl_usage_rate"} ELSE {})

\* compute_risk_metrics, lines 62-70: avg_reward / avg_risk
risk_reward_ratio(d) ==
    IF Len(losing(d)) > 0 /\ Len(winning(d)) > 0
    THEN Ratio(SumSeq(winning(d)) * Len(losing(d)),
               Abs(SumSeq(losing(d))) * Len(winning(d)))
    ELSE Zero

\* df['account_balance_before'].tolist()
balances(d) == [j \in 1..Len(d.profit_loss) |-> balance(d.balances, j)]

\* lines 83-88: the loop over the balances from row j on; the division by
\* running_max raises ZeroDivisionError when running_max is 0
RECURSIVE DrawdownFrom(_, _, _, _)
DrawdownFrom(bal, j, running_max, max_drawdown_pct) ==
    IF j > Len(bal)
    THEN [raised |-> "none", max_drawdown_pct |-> max_drawdown_pct]
    ELSE LET top == IF bal[j] > running_max THEN bal[j] ELSE running_max
         IN  IF top = 0
             THEN [raised |-> "ZeroDivisionError", max_drawdown_pct |-> max_drawdown_pct]
             ELSE LET drawdown_pct == Ratio((top - bal[j]) * 100, top)
                  IN  DrawdownFrom(bal, j + 1, top,
                                   IF Greater(drawdown_pct, max_drawdown_pct)
                                   THEN drawdown_pct ELSE max_drawdown_pct)

\* compute_performance_metrics: balances[0] raises IndexError when the
\* DataFrame has the column and no row
compute_performance_metrics(d) ==
    IF "account_balance_before" \notin d.columns
    THEN [raised |-> "none", max_drawdown_pct |-> Zero]
    ELSE IF Len(d.profit_loss) = 0
         THEN [raised |-> "IndexError", max_drawdown_pct |-> Zero]
         ELSE DrawdownFrom(balances(d), 1, balances(d)[1], Zero)

\* compute_pattern_metrics: df['exit_time'] raises KeyError when the
\* DataFrame has entry_time and no exit_time
compute_pattern_metrics(d) ==
    IF "entry_time" \notin d.columns
    THEN [raised |-> "none", keys |-> {}]
    ELSE IF "exit_time" \notin d.columns
         THEN [raised |-> "KeyError", keys |-> {}]
         ELSE [raised |-> "none",
               keys   |-> {"avg_trade_duration_hours", "revenge_trades_count",
                           "revenge_trading_pct", "most_active_hour"}]

\* compute_all_metrics: the calculator after the call returned or raised
compute_all_metrics(d) ==
    LET performance == compute_performance_metrics(d)
        pattern     == compute_pattern_metrics(d)
        raised      == IF performance.raised # "none" THEN performance.raised
                       ELSE pattern.raised
    IN  [raised            |-> raised,
         basic             |-> compute_basic_metrics(d),
         risk_reward_ratio |-> risk_reward_ratio(d),
         max_drawdown_pct  |-> performance.max_drawdown_pct,
         keys              |-> risk_metric_keys(d)
                               \cup (IF "account_balance_before" \in d.columns
                                        /\ performance.raised = "none"
                                     THEN {"max_drawdown_pct"} ELSE {})
                               \cup (IF performance.raised = "none"
                                     THEN pattern.keys ELSE {})]

NoDataFrame == [columns |-> {}, profit_loss |-> << >>, balances |-> "flat"]

\* no calculator has been constructed
NoCalculator == [raised |-> "idle"]

CalcIdle ==
    /\ df = NoDataFrame
    /\ calculator = NoCalculator

-----------------------------------------------------------------------------
(* process_trade_data: the calculator, the rule engine and the scorer run  *)
(* one after the other (api/routers/analyze.py)                            *)

\* the calls of detect_all_risks made on one engine
MaxCalls == 2

\* a quotient as a float, in hundredths and cut to a whole number of them;
\* the rules compare it with thresholds that are whole numbers of hundredths
Hundredths(r) == (r.num * 100) \div r.den

\* the DataFrames of the chain: those for which every metric the rules read
\* is kept with its value
ChainFrames == {d \in DataFrames : d.columns \subseteq {"account_balance_before"}}

\* RiskRuleEngine(metrics, df): the metrics dict the calculator returned
EngineMetrics(c) ==
    [avg_position_size_pct    |-> Absent,
     sl_usage_rate            |-> Absent,
     max_drawdown_pct         |-> IF "max_drawdown_pct" \in c.keys
                                  THEN Hundredths(c.max_drawdown_pct) ELSE Absent,
     revenge_trading_pct      |-> Absent,
     risk_reward_ratio        |-> Hundredths(c.risk_reward_ratio),
     win_rate                 |-> Hundredths(c.basic.win_rate),
     avg_trade_duration_hours |-> Absent,
     total_trades             |-> c.basic.total_trades]

\* the engine whose detect_all_risks returned r: the lists of the result
\* are the engine's own detected_risks and risk_details
EngineOf(r) == [detected_risks |-> r.detected_risks, risk_details |-> r.risk_details]

-----------------------------------------------------------------------------
(* parse_mt5_html                                                          *)
(*                                                                         *)
(* The document is kept as the sequence of its tables, a table as a number *)
(* of leading rows without cells (preamble) followed by its other rows, a  *)
(* row as the texts of its cells. Column indices count from 0, as in       *)
(* col_map, and -1 is a field that is not mapped. A number is kept in      *)
(* ten-thousandths (11050 is 1.1050). A row for which a call inside the    *)
(* try block of the row loop raises carries raises = TRUE. The time cells  *)
(* of the rows are dates that pd.to_datetime reads, and a parsed time is   *)
(* kept as the text given to it.                                           *)

MaxRows == 4

\* rows[:50], the rows of a table scanned for a header
HeaderScanRows == 50

Row(cells) == [cells |-> cells, raises |-> FALSE]

\* header rows: the columns of a deals table, of a positions table (two
\* time and two price columns), three header words without Profit, and two
\* header words
DealsHeader == Row(<<"Open Time", "Symbol", "Type", "Volume", "Price", "Profit">>)

PositionsHeader ==
    Row(<<"Time", "Symbol", "Type", "Volume", "Price", "Time", "Price", "Profit">>)

OrdersHeader == Row(<<"Time", "Symbol", "Type">>)

SummaryHeader == Row(<<"Symbol", "Profit">>)

HeaderRows == {DealsHeader, PositionsHeader, OrdersHeader, SummaryHeader}

\* data rows: a trade with eight cells and one with six, a balance row, a
\* row without symbol, and a trade row on which the try block raises
PositionRow ==
    Row(<<"2025.11.01 10:00", "EURUSD", "buy", "0.10", "1.1000",
          "2025.11.01 11:00", "1.1050", "50.00">>)

DealRow == Row(<<"2025.11.02 10:00", "GBPUSD", "sell", "0.10", "1.1000", "-30.00">>)

BalanceRow == Row(<<"2025.11.01 09:00", "USD", "Balance", "", "", "1000.00">>)

NoSymbolRow == Row(<<"2025.11.03 10:00", "", "buy", "0.10", "1.1000", "50.00">>)

RaisingRow ==
    [cells  |-> <<"2025.11.04 10:00", "XAUUSD", "buy", "0.10", "1.1000",
                  "2025.11.04 11:00", "1.1050", "75.00">>,
     raises |-> TRUE]

DataRows == {PositionRow, DealRow, BalanceRow, NoSymbolRow, RaisingRow}

\* the numbers of leading rows without cells of a header-only table: the
\* header is row 49 or row 50 of its table
Preambles == {HeaderScanRows - 1, HeaderScanRows}

\* a table of data rows, with a header row first or without one
MainTables ==
    {[preamble |-> 0, rows |-> h \o r] :
        h \in {<< >>} \cup {<<x>> : x \in HeaderRows},
        r \in UNION {[1..n -> DataRows] : n \in 0..MaxRows}}

\* a table that holds a header row only, after its preamble
HeaderOnlyTables ==
    {[preamble |-> p, rows |-> <<h>>] : p \in Preambles, h \in HeaderRows}

Range(q) == {q[j] : j \in DOMAIN q}

Flag(b) == IF b THEN 1 ELSE 0

\* lines 59-67: one point per keyword family found among the cell texts
header_score(cells) ==
    LET cell_set == Range(cells)
    IN  Flag("Time" \in cell_set \/ "Open Time" \in cell_set)
        + Flag("Profit" \in cell_set)
        + Flag("Symbol" \in cell_set)
        + Flag("Type" \in cell_set)
        + Flag("Volume" \in cell_set \/ "Size" \in cell_set)

\* the header threshold of line 72
MinHeaderScore == 3

\* lines 52-74 for the rows of table idx from row j on: the candidates
\* (score, table index, header row index), in row order
RECURSIVE CandidatesOfTable(_, _, _)
CandidatesOfTable(table, idx, j) ==
    IF j > Len(table.rows) \/ table.preamble + j - 1 >= HeaderScanRows
    THEN << >>
    ELSE (IF header_score(table.rows[j].cells) >= MinHeaderScore
          THEN <<[score |-> header_score(table.rows[j].cells), idx |-> idx,
                  r_idx |-> table.preamble + j - 1]>>
          ELSE << >>)
         \o CandidatesOfTable(table, idx, j + 1)

\* lines 46-74: candidate_tables, in document order
RECURSIVE CandidatesFrom(_, _)
CandidatesFrom(tables, idx) ==
    IF idx > Len(tables) THEN << >>
    ELSE CandidatesOfTable(tables[idx], idx, 1) \o CandidatesFrom(tables, idx + 1)

candidate_tables(tables) == CandidatesFrom(tables, 1)

\* the last candidate of the highest score
best_candidate_last(c) ==
    LET top == CHOOSE x \in Range(c) : \A y \in Range(c) : y.score <= x.score
        j   == CHOOSE x \in DOMAIN c :
                   /\ c[x].score = top.score
                   /\ \A y \in DOMAIN c : c[y].score = top.score => y <= x
    IN  c[j]

\* lines 81-82: the stable descending sort on the score puts first the
\* earliest candidate of the highest score
best_candidate(c) ==
    LET top == CHOOSE x \in Range(c) : \A y \in Range(c) : y.score <= x.score
        j   == CHOOSE x \in DOMAIN c :
                   /\ c[x].score = top.score
                   /\ \A y \in DOMAIN c : c[y].score = top.score => x <= y
    IN  c[j]

\* h.lower() of the header texts
lower(h) ==
    CASE h = "Open Time" -> "open time"
      [] h = "Time"      -> "time"
      [] h = "Symbol"    -> "symbol"
      [] h = "Type"      -> "type"
      [] h = "Volume"    -> "volume"
      [] h = "Price"     -> "price"
      [] h = "Profit"    -> "profit"
      [] h = "Balance"   -> "balance"
      [] OTHER           -> h

\* k in h, for a keyword k and a lower-case header text h
IsIn(k, h) ==
    \/ k = h
    \/ k = "time" /\ h = "open time"

\* find_all_indices: the indices of the headers that hold a keyword
find_all_indices(keywords, lower_headers) ==
    {i \in 0..(Len(lower_headers) - 1) :
        \E k \in keywords : IsIn(k, lower_headers[i + 1])}

SetMin(S) == CHOOSE x \in S : \A y \in S : x <= y

SetMax(S) == CHOOSE x \in S : \A y \in S : y <= x

\* idxs[1] of the sorted list of at least two indices
Second(S) == SetMin(S \ {SetMin(S)})

\* lines 131-138: the price columns
price_columns(price_idxs) ==
    IF Cardinality(price_idxs) >= 2
    THEN [entry_price |-> SetMin(price_idxs), exit_price |-> Second(price_idxs)]
    ELSE IF Cardinality(price_idxs) = 1
         THEN [entry_price |-> SetMin(price_idxs), exit_price |-> -1]
         ELSE [entry_price |-> -1, exit_price |-> -1]

\* lines 122-129: the time columns
time_columns(time_idxs) ==
    IF Cardinality(time_idxs) >= 2
    THEN [entry_time |-> SetMin(time_idxs), exit_time |-> Second(time_idxs)]
    ELSE IF Cardinality(time_idxs) = 1
         THEN [entry_time |-> SetMin(time_idxs), exit_time |-> SetMin(time_idxs)]
         ELSE [entry_time |-> -1, exit_time |-> -1]

FirstOr(S) == IF S = {} THEN -1 ELSE SetMin(S)

LastOr(S) == IF S = {} THEN -1 ELSE SetMax(S)

\* lines 86-138: col_map of a header row
column_map(header_row) ==
    LET lower_headers == [j \in DOMAIN header_row |-> lower(header_row[j])]
        times  == time_columns(find_all_indices({"time", "date"}, lower_headers))
        prices == price_columns(find_all_indices({"price"}, lower_headers))
    IN  [entry_time  |-> times.entry_time,
         exit_time   |-> times.exit_time,
         symbol      |-> FirstOr(find_all_indices({"symbol", "item"}, lower_headers)),
         type        |-> FirstOr(find_all_indices({"type"}, lower_headers)),
         volume      |-> FirstOr(find_all_indices({"volume", "size", "quantity"},
                                                  lower_headers)),
         profit      |-> LastOr(find_all_indices({"profit"}, lower_headers)),
         entry_price |-> prices.entry_price,
         exit_price  |-> prices.exit_price]

NoColumnMap ==
    [entry_time |-> -1, exit_time |-> -1, symbol |-> -1, type |-> -1,
     volume |-> -1, profit |-> -1, entry_price |-> -1, exit_price |-> -1]

\* max(col_map.values())
required_idx(cm) ==
    SetMax({cm.entry_time, cm.exit_time, cm.symbol, cm.type, cm.volume,
            cm.profit, cm.entry_price, cm.exit_price})

\* cells[i] of Python: index -1 is the last cell
Cell(cells, i) == IF i = -1 THEN cells[Len(cells)] ELSE cells[i + 1]

\* _clean_number: the float of the digits, dots and minus signs of the
\* text, 0.0 when the text is empty or they do not make a number
clean_number(text) ==
    CASE text = "0.10"    -> 1000
      [] text = "1.1000"  -> 11000
      [] text = "1.1050"  -> 11050
      [] text = "50.00"   -> 500000
      [] text = "75.00"   -> 750000
      [] text = "-30.00"  -> -300000
      [] text = "1000.00" -> 10000000
      [] OTHER            -> 0

\* _clean_date: the dots replaced by dashes, None for an empty text
clean_date(text) ==
    CASE text = "2025.11.01 09:00" -> "2025-11-01 09:00"
      [] text = "2025.11.01 10:00" -> "2025-11-01 10:00"
      [] text = "2025.11.01 11:00" -> "2025-11-01 11:00"
      [] text = "2025.11.02 10:00" -> "2025-11-02 10:00"
      [] text = "2025.11.03 10:00" -> "2025-11-03 10:00"
      [] text = "2025.11.04 10:00" -> "2025-11-04 10:00"
      [] text = "2025.11.04 11:00" -> "2025-11-04 11:00"
      [] text = ""                 -> "None"
      [] OTHER                     -> text

SkippedTypes == {"balance", "credit", "total"}

\* lines 168-176 without the test on the trade type
is_skipped_untyped(cells, cm) ==
    LET symbol     == Cell(cells, cm.symbol)
        trade_type == IF cm.type # -1 THEN Cell(cells, cm.type) ELSE "Unknown"
    IN  symbol = "" \/ trade_type = ""

\* lines 168-176: the row is left out for its symbol or its type
is_skipped(cells, cm) ==
    LET symbol     == Cell(cells, cm.symbol)
        trade_type == IF cm.type # -1 THEN Cell(cells, cm.type) ELSE "Unknown"
    IN  symbol = "" \/ trade_type = "" \/ lower(trade_type) \in SkippedTypes

\* lines 178-205: the trade read from the cells, the n-th of data
trade_of(cells, cm, n) ==
    LET entry_t_str == IF cm.entry_time # -1
                       THEN clean_date(Cell(cells, cm.entry_time)) ELSE ""
    IN  [trade_id    |-> <<"mt5", n>>,
         symbol      |-> Cell(cells, cm.symbol),
         trade_type  |-> IF cm.type # -1 THEN Cell(cells, cm.type) ELSE "Unknown",
         lot_size    |-> IF cm.volume # -1
                         THEN clean_number(Cell(cells, cm.volume)) ELSE 0,
         profit_loss |-> clean_number(Cell(cells, cm.profit)),
         entry_time  |-> entry_t_str,
         exit_time   |-> IF cm.exit_time # -1
                         THEN clean_date(Cell(cells, cm.exit_time)) ELSE entry_t_str,
         entry_price |-> IF cm.entry_price # -1
                         THEN clean_number(Cell(cells, cm.entry_price)) ELSE 0,
         exit_price  |-> IF cm.exit_price # -1
                         THEN clean_number(Cell(cells, cm.exit_price)) ELSE 0]

\* the row loop with an exception of a row ending the loop
RECURSIVE parse_rows_aborting(_, _, _, _)
parse_rows_aborting(data_rows, cm, data, failure_log) ==
    IF data_rows = << >> THEN [data |-> data, failure_log |-> failure_log]
    ELSE LET row == Head(data_rows)
         IN  IF row.cells = << >> \/ Len(row.cells) <= required_idx(cm)
                \/ is_skipped(row.cells, cm)
             THEN parse_rows_aborting(Tail(data_rows), cm, data, failure_log)
             ELSE IF row.raises
                  THEN [data |-> data, failure_log |-> failure_log + 1]
                  ELSE parse_rows_aborting(Tail(data_rows), cm,
                                  Append(data, trade_of(row.cells, cm, Len(data) + 1)),
                                  failure_log)

\* lines 154-211: the row loop; failure_log is kept as its length
RECURSIVE parse_rows(_, _, _, _)
parse_rows(data_rows, cm, data, failure_log) ==
    IF data_rows = << >> THEN [data |-> data, failure_log |-> failure_log]
    ELSE LET row == Head(data_rows)
         IN  IF row.cells = << >> \/ Len(row.cells) <= required_idx(cm)
                \/ is_skipped(row.cells, cm)
             THEN parse_rows(Tail(data_rows), cm, data, failure_log)
             ELSE IF row.raises
                  THEN parse_rows(Tail(data_rows), cm, data, failure_log + 1)
                  ELSE parse_rows(Tail(data_rows), cm,
                                  Append(data, trade_of(row.cells, cm, Len(data) + 1)),
                                  failure_log)

\* rows[header_row_idx + 1:] of the table, the preamble rows left out: they
\* have no cells and line 158 passes over them
data_rows_after(table, header_row_idx) ==
    LET j == header_row_idx - table.preamble + 1
    IN  SubSeq(table.rows, j + 1, Len(table.rows))

NoHeader == [score |-> 0, idx |-> 0, r_idx |-> -1]

\* parse_mt5_html: what it returns or raises
parse_mt5_html(tables) ==
    LET candidates == candidate_tables(tables)
    IN  IF candidates = << >>
        THEN [raised |-> "no_table", header |-> NoHeader, col_map |-> NoColumnMap,
              data |-> << >>, failures |-> 0]
        ELSE LET best       == best_candidate(candidates)
                 table      == tables[best.idx]
                 header_row == table.rows[best.r_idx - table.preamble + 1].cells
                 cm         == column_map(header_row)
                 done       == parse_rows(data_rows_after(table, best.r_idx), cm, << >>, 0)
             IN  IF cm.profit = -1
                 THEN [raised |-> "no_profit", header |-> best, col_map |-> cm,
                       data |-> << >>, failures |-> 0]
                 ELSE IF done.data = << >>
                      THEN [raised |-> "no_trades", header |-> best, col_map |-> cm,
                            data |-> << >>, failures |-> done.failure_log]
                      ELSE [raised |-> "none", header |-> best, col_map |-> cm,
                            data |-> done.data, failures |-> done.failure_log]

NoDocument == << >>

\* the parser has not been called
NotParsed ==
    [raised |-> "idle", header |-> NoHeader, col_map |-> NoColumnMap,
     data |-> << >>, failures |-> 0]

ParserIdle ==
    /\ document = NoDocument
    /\ parsed = NotParsed

-----------------------------------------------------------------------------
(* SyncReconciler: the stored tables                                       *)
(*                                                                         *)
(* A background task works on its own database session: what it adds or    *)
(* changes is seen by its own queries at once and by the other sessions    *)
(* when it commits. A timestamp taken with datetime.utcnow() by task t is  *)
(* kept as the number t, 0 is NULL. The primary key of a deriv_trades row  *)
(* is kept as the pair of its dedup key and the number of the row among    *)
(* the rows of that key, given when the row is inserted; 0 is a row not    *)
(* inserted yet. An awaited client call or query either returns or raises; *)
(* what it raises is caught at line 348. A commit, and the database calls  *)
(* of the except block, are taken to succeed.                              *)

MaxTasks == 2
MaxLen == 2

ConnectionIds == {"c1", "c2"}
Users == {"u1", "u2"}
TradeIds == {"x", "y"}
Profits == {0, 1}
TaskIds == 1..MaxTasks

\* DerivConnection.user_id of the stored connections
user_id == [c \in ConnectionIds |-> IF c = "c1" THEN "u1" ELSE "u2"]

\* the user whose requests are followed; the connection of the other user
\* and its trades are stored and no request is made for them
Requester == "u1"

\* the time of the sync that stored the trades of the other user
Earlier == -1

\* the row connect_deriv_account inserts (column defaults of DerivConnection)
NewConnection ==
    [connection_status |-> "connected", last_sync_status |-> "none",
     last_sync_at |-> 0, last_successful_sync |-> 0,
     total_syncs |-> 0, total_trades_synced |-> 0,
     last_error |-> "none", error_count |-> 0]

\* no row of sync_logs
NoLog ==
    [connection_id |-> "none", status |-> "none",
     trades_fetched |-> 0, trades_new |-> 0, trades_updated |-> 0,
     completed_at |-> 0, duration_seconds |-> FALSE,
     error_message |-> "none", analysis_id |-> 0]

\* a task that was never scheduled
NoTask ==
    [pc |-> "idle", connection_id |-> "none", analyze_after_sync |-> FALSE,
     prev |-> 0,
     connection |-> NewConnection, loaded |-> NewConnection, dirty |-> {},
     stored_before |-> {}, api_failed |-> FALSE,
     trades |-> << >>, i |-> 1, new_trades |-> 0, updated_trades |-> 0,
     added |-> {}, changed |-> {}, analysis_id |-> 0]

\* the connection of the other user after the sync that stored its trades
SyncedConnection ==
    [NewConnection EXCEPT !.last_sync_status = "success",
                          !.last_sync_at = Earlier,
                          !.last_successful_sync = Earlier,
                          !.total_syncs = 1,
                          !.total_trades_synced = Cardinality(TradeIds)]

\* the account of the requester is connected (connect_deriv_account without
\* auto_sync) and not synced yet; the other user has synced every trade id
SyncInit ==
    /\ connections = [c \in ConnectionIds |->
                         IF user_id[c] = Requester THEN NewConnection ELSE SyncedConnection]
    /\ deriv_trades = {[id |-> 1, connection_id |-> c, deriv_trade_id |-> d, profit |-> 0,
                           analysis_id |-> 0] :
                          c \in {k \in ConnectionIds : user_id[k] # Requester}, d \in TradeIds}
    /\ sync_logs = [t \in TaskIds |-> NoLog]
    /\ task = [t \in TaskIds |-> NoTask]

Init ==
    /\ risk_details = << >>
    /\ score_result = NoResult
    /\ RulesIdle
    /\ CalcIdle
    /\ ParserIdle
    /\ SyncInit

\* the tasks handed to background_tasks.add_task so far
Scheduled == {t \in TaskIds : task[t].pc # "idle"}

\* a task body is running: between its first statement and its return
Running(t) == task[t].pc \notin {"idle", "scheduled", "done"}

\* background_tasks.add_task for each connection of cs, in order: the tasks
\* of one request run one after the other
AddTasks(cs, analyze) ==
    LET n == Cardinality(Scheduled)
    IN  [t \in TaskIds |->
            IF t > n /\ t <= n + Len(cs)
            THEN [NoTask EXCEPT !.pc = "scheduled",
                                !.connection_id = cs[t - n],
                                !.analyze_after_sync = analyze,
                                !.prev = IF t = n + 1 THEN 0 ELSE t - 1]
            ELSE task[t]]

RECURSIVE SeqOf(_)
\* the rows of a query over connections, in the order c1, c2
SeqOf(S) ==
    IF S = {} THEN << >>
    ELSE LET c == CHOOSE x \in S : \A y \in S : x = y \/ x = "c1"
         IN  <<c>> \o SeqOf(S \ {c})

\* the connections a sync request selects (lines 480-491)
SyncTargets(u, connection_id) ==
    IF connection_id # "all"
    THEN IF user_id[connection_id] = u THEN <<connection_id>> ELSE << >>
    ELSE SeqOf({c \in ConnectionIds :
                    /\ user_id[c] = u
                    /\ connections[c].connection_status = "connected"})

\* sync_deriv_trades: connection_id names a connection or is "all"; with no
\* connection selected the request is answered 404 and changes nothing
SyncDerivTrades(u, connection_id, analyze) ==
    LET cs == SyncTargets(u, connection_id)
    IN  /\ Cardinality(Scheduled) + Len(cs) <= MaxTasks
        /\ task' = AddTasks(cs, analyze)
        /\ UNCHANGED <<connections, deriv_trades, sync_logs>>
        /\ UNCHANGED pureVars

-----------------------------------------------------------------------------
(* SyncReconciler: sync_trades_background_task, one action per await       *)

TradeData == [deriv_trade_id : TradeIds, profit : Profits]

\* the transaction lists the broker can hold: at most MaxLen transactions,
\* each transaction_id once, x before y
Feeds ==
    {f \in UNION {[1..n -> TradeData] : n \in 0..MaxLen} :
        \A a, b \in DOMAIN f :
            a < b => (f[a].deriv_trade_id = "x" /\ f[b].deriv_trade_id = "y")}

\* DerivAPIClient.get_transactions: every page when no request fails, the
\* pages before the first non-200 response (got transactions), nothing
\* when a request raises
get_transactions(feed, outcome, got) ==
    CASE outcome = "ok"        -> feed
      [] outcome = "status"    -> SubSeq(feed, 1, got)
      [] outcome = "exception" -> << >>

\* DerivAPIClient.get_trades: each transaction transformed to a trade
get_trades(feed, outcome, got) == get_transactions(feed, outcome, got)

SetTask(t, r) == [task EXCEPT ![t] = r]

\* a commit that makes the stored rows of the connection mirror the session:
\* the rows the task neither added nor changed are deleted
CommitTradesMirror(r) ==
    {row \in deriv_trades : row.connection_id # r.connection_id}
        \cup r.changed
        \cup {[a EXCEPT !.id = 1] : a \in r.added}

\* the stored rows after the session of a task commits: its added rows and
\* its changes to existing rows
CommitTradesOf(r) ==
    LET SameRow(a, b) ==
            /\ a.id = b.id
            /\ a.deriv_trade_id = b.deriv_trade_id
            /\ a.connection_id = b.connection_id
        RowsOfKey(a) ==
            {row \in deriv_trades : /\ row.deriv_trade_id = a.deriv_trade_id
                                    /\ row.connection_id = a.connection_id}
    IN  {IF \E ch \in r.changed : SameRow(ch, row)
         THEN [row EXCEPT !.profit = (CHOOSE ch \in r.changed : SameRow(ch, row)).profit]
         ELSE row : row \in deriv_trades}
        \cup {[a EXCEPT !.id = Cardinality(RowsOfKey(a)) + 1] : a \in r.added}

\* the stored connection after the session of a task commits: the
\* attributes the task assigned
CommitConnectionOf(r) ==
    [f \in DOMAIN NewConnection |->
        IF f \in r.dirty THEN r.connection[f] ELSE connections[r.connection_id][f]]

\* the task after db.commit()
Committed(r) == [r EXCEPT !.dirty = {}, !.added = {}, !.changed = {}]

\* the task after its return: its session is closed; the list it fetched
\* and the place it reached in it are kept for reference
Returned(r) ==
    [NoTask EXCEPT !.pc = "done", !.connection_id = r.connection_id,
                   !.trades = r.trades, !.i = r.i]

\* the deriv_trade_ids stored for connection c in the rows S
StoredIds(S, c) == {row.deriv_trade_id : row \in {x \in S : x.connection_id = c}}

\* lines 227-237: load the connection, create the sync log
LoadConnection(t) ==
    /\ task[t].pc = "scheduled"
    /\ task[t].prev # 0 => task[task[t].prev].pc = "done"
    /\ LET c == task[t].connection_id
       IN  /\ task' = SetTask(t, [task[t] EXCEPT !.pc = "test",
                                                 !.connection = connections[c],
                                                 !.loaded = connections[c],
                                                 !.stored_before = StoredIds(deriv_trades, c)])
           /\ sync_logs' = [sync_logs EXCEPT ![t] =
                               [NoLog EXCEPT !.connection_id = c, !.status = "started"]]
    /\ UNCHANGED <<connections, deriv_trades>>
    /\ UNCHANGED pureVars

\* str(e) of the exception a task catches
ErrorText == "error"

\* the except block rolling the session back instead of committing it
HandleFailureRollback(t, r) ==
    /\ sync_logs' = [sync_logs EXCEPT ![t] =
                        [sync_logs[t] EXCEPT !.status = "failed",
                                             !.completed_at = t,
                                             !.duration_seconds = TRUE,
                                             !.error_message = ErrorText]]
    /\ connections' = [connections EXCEPT ![r.connection_id] =
                          [connections[r.connection_id] EXCEPT
                              !.connection_status = "error",
                              !.last_sync_status = "failed",
                              !.last_error = ErrorText,
                              !.error_count = r.connection.error_count + 1]]
    /\ deriv_trades' = deriv_trades
    /\ task' = SetTask(t, Returned(r))

\* the except block without the increment of error_count
HandleFailureNoCount(t, r) ==
    LET failed == [r EXCEPT !.connection.connection_status = "error",
                            !.connection.last_sync_status = "failed",
                            !.connection.last_error = ErrorText,
                            !.dirty = r.dirty \cup {"connection_status", "last_sync_status",
                                                    "last_error"}]
    IN  /\ sync_logs' = [sync_logs EXCEPT ![t] =
                            [sync_logs[t] EXCEPT !.status = "failed",
                                                 !.completed_at = t,
                                                 !.duration_seconds = TRUE,
                                                 !.error_message = ErrorText]]
        /\ connections' = [connections EXCEPT ![r.connection_id] = CommitConnectionOf(failed)]
        /\ deriv_trades' = CommitTradesOf(failed)
        /\ task' = SetTask(t, Returned(failed))

\* lines 348-365: the except block, entered with the task record r
HandleFailure(t, r) ==
    LET msg == ErrorText
        failed == [r EXCEPT !.connection.connection_status = "error",
                            !.connection.last_sync_status = "failed",
                            !.connection.last_error = msg,
                            !.connection.error_count = r.connection.error_count + 1,
                            !.dirty = r.dirty \cup {"connection_status", "last_sync_status",
                                                    "last_error", "error_count"}]
    IN  /\ sync_logs' = [sync_logs EXCEPT ![t] =
                            [sync_logs[t] EXCEPT !.status = "failed",
                                                 !.completed_at = t,
                                                 !.duration_seconds = TRUE,
                                                 !.error_message = msg]]
        /\ connections' = [connections EXCEPT ![r.connection_id] = CommitConnectionOf(failed)]
        /\ deriv_trades' = CommitTradesOf(failed)
        /\ task' = SetTask(t, Returned(failed))

\* lines 240-260: decrypt the token, test the connection
TestConnection(t, outcome) ==
    /\ task[t].pc = "test"
    /\ IF outcome = "ok"
       THEN /\ task' = SetTask(t, [task[t] EXCEPT
                           !.pc = "fetch",
                           !.connection.connection_status = "connected",
                           !.dirty = task[t].dirty \cup {"connection_status"}])
            /\ UNCHANGED <<connections, deriv_trades, sync_logs>>
       ELSE HandleFailure(t, [task[t] EXCEPT !.api_failed = (outcome = "test_failed")])
    /\ UNCHANGED pureVars

\* line 263: fetch the trades
GetTrades(t, feed, outcome, got) ==
    /\ task[t].pc = "fetch"
    /\ task' = SetTask(t, [task[t] EXCEPT
                   !.pc = "upsert",
                   !.trades = get_trades(feed, outcome, got),
                   !.api_failed = (outcome # "ok")])
    /\ UNCHANGED <<connections, deriv_trades, sync_logs>>
    /\ UNCHANGED pureVars

\* the existence query seeing only the rows of its own session
ExistingTradesOwn(r, deriv_trade_id) ==
    {row \in r.added :
        /\ row.deriv_trade_id = deriv_trade_id
        /\ row.connection_id = r.connection_id}

\* lines 272-277: the rows the existence query of a task returns
ExistingTrades(r, deriv_trade_id) ==
    {row \in deriv_trades \cup r.added :
        /\ row.deriv_trade_id = deriv_trade_id
        /\ row.connection_id = r.connection_id}

\* lines 279-284: update the existing trade
UpdateTrade(r, row, trade_data) ==
    IF row \in r.added
    THEN [r EXCEPT !.added = (r.added \ {row}) \cup {[row EXCEPT !.profit = trade_data.profit]},
                   !.updated_trades = r.updated_trades + 1]
    ELSE [r EXCEPT !.changed = {ch \in r.changed : ch.id # row.id
                                                     \/ ch.deriv_trade_id # row.deriv_trade_id}
                                   \cup {[row EXCEPT !.profit = trade_data.profit]},
                   !.updated_trades = r.updated_trades + 1]

\* lines 285-311: create the new trade
CreateTrade(r, trade_data) ==
    [r EXCEPT !.added = r.added \cup {[id |-> 0,
                                       connection_id |-> r.connection_id,
                                       deriv_trade_id |-> trade_data.deriv_trade_id,
                                       profit |-> trade_data.profit,
                                       analysis_id |-> 0]},
              !.new_trades = r.new_trades + 1]

\* lines 270-311: one iteration of the upsert loop
UpsertTrade(t) ==
    /\ task[t].pc = "upsert"
    /\ task[t].i <= Len(task[t].trades)
    /\ LET r == task[t]
           trade_data == r.trades[r.i]
           existing == ExistingTrades(r, trade_data.deriv_trade_id)
       IN  IF existing # {}
           THEN \E existing_trade \in existing :
                    task' = SetTask(t, [UpdateTrade(r, existing_trade, trade_data)
                                            EXCEPT !.i = r.i + 1])
           ELSE task' = SetTask(t, [CreateTrade(r, trade_data) EXCEPT !.i = r.i + 1])
    /\ UNCHANGED <<connections, deriv_trades, sync_logs>>
    /\ UNCHANGED pureVars

\* line 313: commit the upserts
CommitTrades(t) ==
    /\ task[t].pc = "upsert"
    /\ task[t].i > Len(task[t].trades)
    /\ connections' = [connections EXCEPT ![task[t].connection_id] = CommitConnectionOf(task[t])]
    /\ deriv_trades' = CommitTradesOf(task[t])
    /\ task' = SetTask(t, [Committed(task[t]) EXCEPT !.pc = "commit_stats"])
    /\ UNCHANGED sync_logs
    /\ UNCHANGED pureVars

\* the connection stats without the reset of error_count and last_error
WithSyncStatsNoReset(t, r) ==
    [r EXCEPT !.connection.last_sync_at = t,
              !.connection.last_successful_sync = t,
              !.connection.last_sync_status = "success",
              !.connection.total_syncs = r.connection.total_syncs + 1,
              !.connection.total_trades_synced = r.connection.total_trades_synced + r.new_trades,
              !.dirty = r.dirty \cup {"last_sync_at", "last_successful_sync", "last_sync_status",
                                      "total_syncs", "total_trades_synced"}]

\* lines 316-322: the connection stats of a successful sync
WithSyncStats(t, r) ==
    [r EXCEPT !.connection.last_sync_at = t,
              !.connection.last_successful_sync = t,
              !.connection.last_sync_status = "success",
              !.connection.total_syncs = r.connection.total_syncs + 1,
              !.connection.total_trades_synced = r.connection.total_trades_synced + r.new_trades,
              !.connection.error_count = 0,
              !.connection.last_error = "none",
              !.dirty = r.dirty \cup {"last_sync_at", "last_successful_sync", "last_sync_status",
                                      "total_syncs", "total_trades_synced", "error_count",
                                      "last_error"}]

\* the analysis run whenever the request asked for it
AnalysisWantedAlways(r) == r.analyze_after_sync

\* line 329: whether the analysis is run
AnalysisWanted(r) == r.analyze_after_sync /\ (r.new_trades > 0 \/ r.updated_trades > 0)

\* lines 315-324: update the connection stats and commit
CommitStats(t) ==
    /\ task[t].pc = "commit_stats"
    /\ LET r == WithSyncStats(t, task[t])
       IN  /\ connections' = [connections EXCEPT ![r.connection_id] = CommitConnectionOf(r)]
           /\ deriv_trades' = CommitTradesOf(r)
           /\ task' = SetTask(t, [Committed(r) EXCEPT
                          !.pc = IF AnalysisWanted(r) THEN "analyze" ELSE "log_success"])
    /\ UNCHANGED sync_logs
    /\ UNCHANGED pureVars

\* analyze_synced_trades, lines 97-102: the trades the analysis is run on
AnalysedTrades(r) == {row \in deriv_trades : row.connection_id = r.connection_id}

\* analyze_synced_trades, lines 199-206: the trades and the sync log linked
\* to the analysis stored by task t
LinkedTrades(t, r) ==
    {IF row \in AnalysedTrades(r) THEN [row EXCEPT !.analysis_id = t] ELSE row :
        row \in deriv_trades}

\* lines 326-332 and analyze_synced_trades: the analysis is stored and linked
\* to the trades and the sync log (analysed), or something raises inside it
\* and it returns None
AnalyzeSyncedTrades(t, analysed) ==
    /\ task[t].pc = "analyze"
    /\ task' = SetTask(t, [task[t] EXCEPT !.pc = "log_success",
                                          !.analysis_id = IF analysed THEN t ELSE 0])
    /\ sync_logs' = [sync_logs EXCEPT ![t].analysis_id = IF analysed THEN t ELSE 0]
    /\ deriv_trades' = IF analysed THEN LinkedTrades(t, task[t]) ELSE deriv_trades
    /\ UNCHANGED connections
    /\ UNCHANGED pureVars

\* the task returning without completing its sync log
LogSuccessUnfinished(t) ==
    /\ task[t].pc = "log_success"
    /\ task' = SetTask(t, Returned(task[t]))
    /\ UNCHANGED <<connections, deriv_trades, sync_logs>>
    /\ UNCHANGED pureVars

\* lines 334-346 and update_sync_log: complete the sync log with success
LogSuccess(t) ==
    /\ task[t].pc = "log_success"
    /\ sync_logs' = [sync_logs EXCEPT ![t] =
                        [sync_logs[t] EXCEPT !.status = "success",
                                             !.completed_at = t,
                                             !.duration_seconds = TRUE,
                                             !.trades_fetched = Len(task[t].trades),
                                             !.trades_new = task[t].new_trades,
                                             !.trades_updated = task[t].updated_trades,
                                             !.analysis_id = task[t].analysis_id]]
    /\ task' = SetTask(t, Returned(task[t]))
    /\ UNCHANGED <<connections, deriv_trades>>
    /\ UNCHANGED pureVars

\* the awaited call of the task raises: get_trades (263), the existence
\* query (276) or the query of update_sync_log (335, 77)
Raise(t) ==
    /\ \/ task[t].pc \in {"fetch", "log_success"}
       \/ task[t].pc = "upsert" /\ task[t].i <= Len(task[t].trades)
    /\ HandleFailure(t, task[t])
    /\ UNCHANGED pureVars

TestOutcomes == {"ok", "decrypt_failed", "test_failed"}
FetchOutcomes == {"ok", "status", "exception"}

\* the steps of a task after it has loaded its connection
RunStep(t) ==
    \/ \E outcome \in TestOutcomes : TestConnection(t, outcome)
    \/ \E feed \in Feeds, outcome \in FetchOutcomes, got \in 0..MaxLen :
          /\ got <= Len(feed)
          /\ outcome = "status" => got < Len(feed)
          /\ outcome # "status" => got = 0
          /\ GetTrades(t, feed, outcome, got)
    \/ UpsertTrade(t)
    \/ CommitTrades(t)
    \/ CommitStats(t)
    \/ \E analysed \in BOOLEAN : AnalyzeSyncedTrades(t, analysed)
    \/ LogSuccess(t)
    \/ Raise(t)

Request ==
    \E c \in ConnectionIds \cup {"all"}, analyze \in BOOLEAN :
        SyncDerivTrades(Requester, c, analyze)

\* the event loop runs the scheduled tasks interleaved at their awaits
Next ==
    \/ Request
    \/ \E t \in TaskIds : LoadConnection(t) \/ RunStep(t)

Spec == Init /\ [][Next]_vars

\* no other task of the same connection is between its start and its return
NoOverlap(t) ==
    \A o \in TaskIds \ {t} : Running(o) => task[o].connection_id # task[t].connection_id

\* every task scheduled so far has returned
AllReturned == \A t \in TaskIds : task[t].pc \in {"idle", "done"}

\* the runs of one connection come one after the other, and a request is
\* made when the tasks of the requests before it have returned
SeqNext ==
    \/ AllReturned /\ Request
    \/ \E t \in TaskIds : (NoOverlap(t) /\ LoadConnection(t)) \/ RunStep(t)

SeqSpec == Init /\ [][SeqNext]_vars

\* the event loop resumes a task whose awaited call has returned or raised:
\* a task that can take a step takes one
SeqFairSpec ==
    SeqSpec /\ \A t \in TaskIds : WF_vars((NoOverlap(t) /\ LoadConnection(t)) \/ RunStep(t))

ScorerInit ==
    /\ risk_details \in RiskDetailsInputs
    /\ score_result = NoResult
    /\ RulesIdle
    /\ CalcIdle
    /\ ParserIdle
    /\ SyncInit

CalculateScore ==
    /\ score_result = NoResult
    /\ score_result' = calculate_score(risk_details)
    /\ UNCHANGED risk_details
    /\ UNCHANGED <<rulesVars, calcVars, parserVars>>
    /\ UNCHANGED syncVars

ScorerNext == CalculateScore

ScorerSpec == ScorerInit /\ [][ScorerNext]_vars

RulesInit ==
    /\ metrics \in MetricsInputs
    /\ symbol_counts \in SymbolCountsInputs
    /\ risk_results = NoRiskResults
    /\ risk_details = << >>
    /\ score_result = NoResult
    /\ CalcIdle
    /\ ParserIdle
    /\ SyncInit

\* RiskRuleEngine(metrics, df).detect_all_risks()
DetectAllRisks ==
    /\ risk_results = NoRiskResults
    /\ risk_results' = detect_all_risks(metrics, symbol_counts)
    /\ UNCHANGED <<metrics, symbol_counts>>
    /\ UNCHANGED <<scorerVars, calcVars, parserVars>>
    /\ UNCHANGED syncVars

\* the eight detect_ methods of a fresh engine called in another order
DetectEachRule ==
    /\ risk_results = NoRiskResults
    /\ \E order \in OtherOrders :
          risk_results' = ResultOf(DetectInOrder(order, metrics, symbol_counts, NewEngine))
    /\ UNCHANGED <<metrics, symbol_counts>>
    /\ UNCHANGED <<scorerVars, calcVars, parserVars>>
    /\ UNCHANGED syncVars

RulesNext == DetectAllRisks \/ DetectEachRule

RulesSpec == RulesInit /\ [][RulesNext]_vars

MetricsInit ==
    /\ df \in DataFrames
    /\ calculator = NoCalculator
    /\ ParserIdle
    /\ risk_details = << >>
    /\ score_result = NoResult
    /\ RulesIdle
    /\ SyncInit

\* TradeMetricsCalculator(df).compute_all_metrics()
ComputeAllMetrics ==
    /\ calculator = NoCalculator
    /\ calculator' = compute_all_metrics(df)
    /\ UNCHANGED df
    /\ UNCHANGED <<scorerVars, rulesVars, parserVars>>
    /\ UNCHANGED syncVars

MetricsNext == ComputeAllMetrics

MetricsSpec == MetricsInit /\ [][MetricsNext]_vars

\* the documents given to the parser: one table of data rows, alone or with
\* a header-only table before or after it
ParserInit ==
    /\ \E m \in MainTables :
          \/ document = <<m>>
          \/ \E o \in HeaderOnlyTables : document \in {<<o, m>>, <<m, o>>}
    /\ parsed = NotParsed
    /\ risk_details = << >>
    /\ score_result = NoResult
    /\ RulesIdle
    /\ CalcIdle
    /\ SyncInit

\* parse_mt5_html(content_bytes)
ParseMt5Html ==
    /\ parsed = NotParsed
    /\ parsed' = parse_mt5_html(document)
    /\ UNCHANGED document
    /\ UNCHANGED <<scorerVars, rulesVars, calcVars>>
    /\ UNCHANGED syncVars

ParserNext == ParseMt5Html

ParserSpec == ParserInit /\ [][ParserNext]_vars

ChainInit ==
    /\ df \in ChainFrames
    /\ calculator = NoCalculator
    /\ risk_details = << >>
    /\ score_result = NoResult
    /\ RulesIdle
    /\ ParserIdle
    /\ SyncInit

\* risk_engine = RiskRuleEngine(metrics, df); risk_engine.detect_all_risks()
ChainDetectAllRisks ==
    /\ calculator # NoCalculator
    /\ calculator.raised = "none"
    /\ risk_results = NoRiskResults
    /\ metrics' = EngineMetrics(calculator)
    /\ symbol_counts' = <<0, 0>>
    /\ risk_results' = detect_all_risks(metrics', symbol_counts')
    /\ UNCHANGED <<scorerVars, calcVars, parserVars>>
    /\ UNCHANGED syncVars

\* detect_all_risks() called again on the same engine
DetectAllRisksAgain ==
    /\ risk_results # NoRiskResults
    /\ Len(risk_results.detected_risks)
          < MaxCalls * Cardinality(DOMAIN risk_results.risk_details)
    /\ risk_results' = ResultOf(DetectInOrder(Rules, metrics, symbol_counts,
                                              EngineOf(risk_results)))
    /\ UNCHANGED <<metrics, symbol_counts>>
    /\ UNCHANGED <<scorerVars, calcVars, parserVars>>
    /\ UNCHANGED syncVars

\* RiskScorer().calculate_score(risk_results["risk_details"])
ChainCalculateScore ==
    /\ risk_results # NoRiskResults
    /\ risk_details' = risk_results.risk_details
    /\ score_result' = calculate_score(risk_details')
    /\ UNCHANGED <<rulesVars, calcVars, parserVars>>
    /\ UNCHANGED syncVars

ChainNext ==
    \/ ComputeAllMetrics
    \/ ChainDetectAllRisks
    \/ DetectAllRisksAgain
    \/ ChainCalculateScore

ChainSpec == ChainInit /\ [][ChainNext]_vars

-----------------------------------------------------------------------------
(* Claims about the scorer                                                 *)

Scored == score_result # NoResult

InBand(score, g) ==
    grade_boundaries[g][1] * 100 <= score /\ score <= grade_boundaries[g][2] * 100

\* C1: every score calculate_score produces lies in exactly one of the
\* bands A=[80,100], B=[60,79], C=[40,59], D=[0,39], and the grade returned
\* is the letter of that band.
C1_GradePartition ==
    Scored =>
        /\ Cardinality({g \in DOMAIN grade_boundaries : InBand(score_result.score, g)}) = 1
        /\ InBand(score_result.score, score_result.grade)

\* C2: for every set of findings with severities in [0,100], the score
\* returned by calculate_score is at least 0 and at most 100.
C2_ScoreInRange ==
    Scored => (0 <= score_result.score /\ score_result.score <= 10000)

\* C2 witness: all eight weighted kinds at severity 100 have been scored
\* (the contributions sum past 100, so the floor at 0 is what bounds the score).
C2_Witness ==
    /\ Scored
    /\ WeightedKinds \subseteq DOMAIN risk_details
    /\ \A k \in WeightedKinds : risk_details[k] = 100
    /\ total_risk_impact(risk_details) > 10000
    /\ score_result.score = 0

-----------------------------------------------------------------------------
(* Claims about the sync reconciler                                        *)

SameKey(a, b) ==
    a.deriv_trade_id = b.deriv_trade_id /\ a.connection_id = b.connection_id

\* C3: under any interleaving of sync tasks, no two stored DerivTrade
\* records share the same (deriv_trade_id, connection_id) pair.
C3_UniqueDedupKey ==
    \A a, b \in deriv_trades : SameKey(a, b) => a = b

\* C4: while a sync task of a connection is in progress, no other task of
\* the same connection executes its fetch-and-upsert steps.
C4_NoConcurrentSync ==
    \A a, b \in TaskIds :
        (a # b /\ Running(a) /\ task[b].pc \in {"fetch", "upsert"})
            => task[a].connection_id # task[b].connection_id

\* the step in which task t returns with its sync log completed as status
Ends(t, status) ==
    /\ Running(t)
    /\ task'[t].pc = "done"
    /\ sync_logs'[t].status = status

PastRun(p, c, status) ==
    /\ task[p].pc = "done"
    /\ task[p].connection_id = c
    /\ sync_logs[p].status = status

\* C5: when a sync of a broker trade list has succeeded and a later sync
\* of the same connection fetches the same list, the later sync reports
\* trades_new = 0 and trades_updated = the list length, and the set of
\* deriv_trade_ids stored for the connection is the one before that sync.
C5_UpsertIdempotent ==
    [][\A t \in TaskIds :
          (/\ Ends(t, "success")
           /\ \E p \in TaskIds \ {t} :
                 /\ PastRun(p, task[t].connection_id, "success")
                 /\ task[p].trades = task[t].trades)
          => /\ sync_logs'[t].trades_new = 0
             /\ sync_logs'[t].trades_updated = Len(task[t].trades)
             /\ StoredIds(deriv_trades', task[t].connection_id) = task[t].stored_before
             /\ \A a, b \in deriv_trades' :
                   (SameKey(a, b) /\ a.connection_id = task[t].connection_id) => a = b]_vars

\* C5 witness: two syncs of the same two-trade list have succeeded one
\* after the other and the second reported no new and two updated trades.
C5_Witness ==
    \E p, t \in TaskIds :
        /\ p < t
        /\ PastRun(p, "c1", "success")
        /\ PastRun(t, "c1", "success")
        /\ task[p].trades = task[t].trades
        /\ Len(task[t].trades) = 2
        /\ sync_logs[p].trades_new = 2
        /\ sync_logs[t].trades_new = 0
        /\ sync_logs[t].trades_updated = 2

\* C6: if a broker API call made during a sync fails, the sync ends with
\* connection_status 'error' and a sync log with status 'failed'.
C6_ApiFailureRecorded ==
    [][\A t \in TaskIds :
          (Running(t) /\ task[t].api_failed /\ task'[t].pc = "done")
          => /\ sync_logs'[t].status = "failed"
             /\ connections'[task[t].connection_id].connection_status = "error"]_vars

\* the step in which task t returns after a failure
Fails(t) == Ends(t, "failed")

\* what every failing run leaves: the connection in 'error' with last_error
\* set to the failure text, the log completed as 'failed' with a duration
FailureRecorded(t) ==
    LET c == connections'[task[t].connection_id]
    IN  /\ c.connection_status = "error"
        /\ c.last_error = ErrorText
        /\ sync_logs'[t].status = "failed"
        /\ sync_logs'[t].error_message = ErrorText
        /\ sync_logs'[t].completed_at # 0
        /\ sync_logs'[t].duration_seconds

Upserted(r) == {r.trades[j] : j \in 1..(r.i - 1)}

\* trade data d is stored for connection c in the rows S, in one row
StoredOnce(S, c, d) ==
    /\ \E row \in S : /\ row.connection_id = c
                      /\ row.deriv_trade_id = d.deriv_trade_id
                      /\ row.profit = d.profit
    /\ Cardinality({row \in S : row.connection_id = c
                                   /\ row.deriv_trade_id = d.deriv_trade_id}) = 1

\* a returned run that failed in its upsert loop after its first trade
FailedPartWay(p) ==
    /\ task[p].pc = "done"
    /\ sync_logs[p].status = "failed"
    /\ 1 < task[p].i
    /\ task[p].i <= Len(task[p].trades)

StartsSync(u, connection_id, c) ==
    \E j \in DOMAIN SyncTargets(u, connection_id) : SyncTargets(u, connection_id)[j] = c

\* C10: a connection in 'error' is retryable: a sync request of its owner
\* starts a sync for it, whether the request names the connection or asks
\* to sync all of the user's connections.
C10_ErrorRetryable ==
    \A c \in ConnectionIds :
        connections[c].connection_status = "error"
            => /\ StartsSync(user_id[c], c, c)
               /\ StartsSync(user_id[c], "all", c)

-----------------------------------------------------------------------------
(* Claims about reconciliation and the analysis after a sync               *)

\* the deriv_trade_ids of a fetched list
ListIds(trades) == {trades[j].deriv_trade_id : j \in DOMAIN trades}

\* C11: reconciliation is additive: no step of a sync run, successful or
\* failed, removes a stored (deriv_trade_id, connection_id) row, and a
\* stored trade that is missing from the list of every running sync of its
\* connection stays stored with its fields unchanged.
C11_AdditiveReconciliation ==
    [][\A row \in deriv_trades :
          /\ \E kept \in deriv_trades' : SameKey(kept, row) /\ kept.id = row.id
          /\ (\A t \in TaskIds :
                 (Running(t) /\ task[t].connection_id = row.connection_id)
                     => row.deriv_trade_id \notin ListIds(task[t].trades))
                => row \in deriv_trades']_vars

\* C11 as amended: no step of a sync run removes a stored row, and a stored
\* trade that is missing from the list of every running sync of its
\* connection keeps the fields reconciliation writes (here profit); its
\* analysis_id alone may change, to the analysis of a running sync of its
\* connection.
C11_AdditiveReconciliationAmended ==
    [][\A row \in deriv_trades :
          /\ \E kept \in deriv_trades' : SameKey(kept, row) /\ kept.id = row.id
          /\ (\A t \in TaskIds :
                 (Running(t) /\ task[t].connection_id = row.connection_id)
                     => row.deriv_trade_id \notin ListIds(task[t].trades))
                => \/ row \in deriv_trades'
                   \/ \E t \in TaskIds :
                         /\ Running(t)
                         /\ task[t].connection_id = row.connection_id
                         /\ [row EXCEPT !.analysis_id = t] \in deriv_trades']_vars

\* C11 witness: a sync stored trade x with profit 1, a later sync of the
\* same connection fetched a list without x, ran its analysis and succeeded,
\* and x is still stored with profit 1, linked to that later analysis.
C11_Witness ==
    \E p, t \in TaskIds :
        /\ p < t
        /\ PastRun(p, "c1", "success")
        /\ PastRun(t, "c1", "success")
        /\ \E j \in DOMAIN task[p].trades :
              task[p].trades[j] = [deriv_trade_id |-> "x", profit |-> 1]
        /\ ListIds(task[t].trades) = {"y"}
        /\ \E row \in deriv_trades :
              /\ row.connection_id = "c1"
              /\ row.deriv_trade_id = "x"
              /\ row.profit = 1
              /\ row.analysis_id = t

\* the stored trades of connection c in the rows S
TradesOf(S, c) == {row \in S : row.connection_id = c}

-----------------------------------------------------------------------------
(* Claims about the scorer's formula                                       *)

\* the weights of the detected kinds of rd, summed (whole points)
DetectedWeight(rd) ==
    SumOver([k \in DOMAIN rd \cap WeightedKinds |-> risk_weights[k]],
            DOMAIN rd \cap WeightedKinds)

\* the score the stated formula gives for rd, in ten-thousandths:
\* contribution = severity/100 * weight, raw = max(0, 100 - sum), and
\* (raw*used + 100*(100 - used))/100 when used < 100, raw otherwise
FormulaScore(rd) ==
    LET found         == DOMAIN rd \cap WeightedKinds
        contributions == SumOver([k \in found |-> rd[k] * risk_weights[k]], found)
        raw           == IF 10000 - contributions > 0 THEN 10000 - contributions ELSE 0
        used          == DetectedWeight(rd)
    IN  IF used < 100 THEN raw * used + 10000 * (100 - used) ELSE raw * 100

\* C13: for a non-empty set of findings the score calculate_score returns
\* is the value of the stated formula.
C13_ScoreFormula ==
    (Scored /\ risk_details # << >>) =>
        score_result.score * 100 = FormulaScore(risk_details)

\* C13 as amended: for a non-empty set of findings the score calculate_score
\* returns is the value of the stated formula rounded to two decimals.
C13_ScoreFormulaRounded ==
    (Scored /\ risk_details # << >>) =>
        score_result.score = Round2(FormulaScore(risk_details))

\* C13 witness: a single low_win_rate finding of severity 50 has been
\* scored: used = 5, raw_score = 97.5, the formula gives 99.875 and the
\* score returned is 99.88.
C13_Witness ==
    /\ Scored
    /\ DOMAIN risk_details = {"low_win_rate"}
    /\ risk_details["low_win_rate"] = 50
    /\ FormulaScore(risk_details) = 998750
    /\ score_result.score = 9988

\* C14: the weights of the eight risk kinds, the table calculate_score has
\* scored with, sum to 100.
C14_WeightsSumTo100 ==
    Scored => SumOver(risk_weights, WeightedKinds) = 100

\* C15: whenever calculate_score has no finding to score (the input is
\* empty or holds only kinds that are not in the weight table) it returns
\* the fixed score 95 with grade A and an empty breakdown.
C15_NoFindingShortcut ==
    (Scored /\ ScoredKinds(risk_details) = {}) => score_result = perfect_score

-----------------------------------------------------------------------------
(* Claims about the rule engine                                            *)

RulesDone == risk_results # NoRiskResults

\* the lower-is-worse kinds: the metric read and its threshold
LowerIsWorse ==
    [no_stop_loss  |-> [metric |-> "sl_usage_rate",     threshold |-> 8000],
     poor_rr_ratio |-> [metric |-> "risk_reward_ratio", threshold |-> 100],
     low_win_rate  |-> [metric |-> "win_rate",          threshold |-> 4000]]

\* C16: whenever a lower-is-worse rule (low_win_rate, poor_rr_ratio,
\* no_stop_loss) fires with metric value v below threshold t, the severity
\* it emits is (t - v)/t*100; win_rate 35 against 40 gives 12.5.
C16_LowerIsWorseSeverity ==
    RulesDone =>
        \A k \in DOMAIN risk_results.risk_details \cap DOMAIN LowerIsWorse :
            LET t == LowerIsWorse[k].threshold
                v == metrics[LowerIsWorse[k].metric]
            IN  risk_results.risk_details[k] * t = (t - v) * 10000

\* the higher-is-worse kinds: the value read, its threshold and max_ref
HigherIsWorse ==
    [over_leverage      |-> [value |-> metrics.avg_position_size_pct,
                             threshold |-> 200,  max_ref |-> 500],
     high_drawdown      |-> [value |-> metrics.max_drawdown_pct,
                             threshold |-> 2000, max_ref |-> 5000],
     revenge_trading    |-> [value |-> metrics.revenge_trading_pct,
                             threshold |-> 1000, max_ref |-> 3000],
     concentration_risk |-> [value |-> IF symbol_counts[2] > 0
                                       THEN (symbol_counts[1] * 10000) \div symbol_counts[2]
                                       ELSE 0,
                             threshold |-> 5000, max_ref |-> 8000]]

\* every emitted severity lies in [0,100]
SeveritiesInRange ==
    \A k \in DOMAIN risk_results.risk_details :
        0 <= risk_results.risk_details[k] /\ risk_results.risk_details[k] <= 10000

\* C17: the severity a higher-is-worse rule emits is
\* clamp(0, 100, (value - threshold)/(max_ref - threshold)*100) with max_ref
\* 5, 50, 30 and 80, and every emitted severity lies in [0,100].
C17_HigherIsWorseSeverity ==
    RulesDone =>
        /\ SeveritiesInRange
        /\ \A k \in DOMAIN risk_results.risk_details \cap DOMAIN HigherIsWorse :
              LET h        == HigherIsWorse[k]
                  severity == risk_results.risk_details[k]
              IN  IF h.value >= h.max_ref
                  THEN severity = 10000
                  ELSE severity * (h.max_ref - h.threshold)
                          = (h.value - h.threshold) * 10000

\* C17 as amended: the severity a higher-is-worse rule emits is
\* clamp(0, 100, (value - threshold)/(max_ref - threshold)*100) rounded to
\* two decimals, and every emitted severity lies in [0,100].
C17_HigherIsWorseSeverityRounded ==
    RulesDone =>
        /\ SeveritiesInRange
        /\ \A k \in DOMAIN risk_results.risk_details \cap DOMAIN HigherIsWorse :
              LET h        == HigherIsWorse[k]
                  severity == risk_results.risk_details[k]
                  num      == (h.value - h.threshold) * 10000
                  den      == h.max_ref - h.threshold
              IN  IF h.value >= h.max_ref
                  THEN severity = 10000
                  ELSE /\ 2 * (severity * den - num) <= den
                       /\ 2 * (num - severity * den) <= den

\* C17 witness: the rules have run on average position size 2.1 (severity
\* 3.33), drawdown 35 (severity 50) and 90% of the trades in one symbol
\* (severity 100).
C17_Witness ==
    /\ RulesDone
    /\ metrics.avg_position_size_pct = 210
    /\ metrics.max_drawdown_pct = 3500
    /\ symbol_counts = <<9, 10>>
    /\ risk_results.risk_details["over_leverage"] = 333
    /\ risk_results.risk_details["high_drawdown"] = 5000
    /\ risk_results.risk_details["concentration_risk"] = 10000

\* the kinds whose trigger condition holds for the metrics and the trades
Triggered ==
    {k \in WeightedKinds :
        CASE k = "over_leverage" ->
                 metrics.avg_position_size_pct # Absent /\ metrics.avg_position_size_pct > 200
          [] k = "no_stop_loss" ->
                 metrics.sl_usage_rate # Absent /\ metrics.sl_usage_rate < 8000
          [] k = "high_drawdown" ->
                 metrics.max_drawdown_pct # Absent /\ metrics.max_drawdown_pct > 2000
          [] k = "revenge_trading" ->
                 metrics.revenge_trading_pct # Absent /\ metrics.revenge_trading_pct > 1000
          [] k = "poor_rr_ratio" ->
                 metrics.risk_reward_ratio # Absent /\ metrics.risk_reward_ratio < 100
          [] k = "low_win_rate" ->
                 metrics.win_rate # Absent /\ metrics.win_rate < 4000
          [] k = "concentration_risk" ->
                 2 * symbol_counts[1] > symbol_counts[2]
          [] k = "overtrading" ->
                 /\ metrics.avg_trade_duration_hours # Absent
                 /\ metrics.avg_trade_duration_hours < 100
                 /\ metrics.total_trades # Absent
                 /\ metrics.total_trades > 20
                 /\ metrics.total_trades > 150}

\* C18: after the rules have run on a fresh engine, in the order of
\* detect_all_risks or in another order, a kind is in the result exactly
\* when its trigger condition holds, and it is there once.
C18_FindingIffTriggered ==
    RulesDone =>
        /\ DOMAIN risk_results.risk_details = Triggered
        /\ {risk_results.detected_risks[j] : j \in DOMAIN risk_results.detected_risks}
              = Triggered
        /\ Len(risk_results.detected_risks) = Cardinality(Triggered)
        /\ risk_results.total_risks = Cardinality(Triggered)

\* C18 witness: the rules have run in another order than detect_all_risks
\* (overtrading was detected first), over_leverage was detected too, and
\* the win rate, at its threshold of 40, gave no finding.
C18_Witness ==
    /\ RulesDone
    /\ Len(risk_results.detected_risks) >= 2
    /\ risk_results.detected_risks[1] = "overtrading"
    /\ "over_leverage" \in DOMAIN risk_results.risk_details
    /\ metrics.win_rate = 4000
    /\ "low_win_rate" \notin DOMAIN risk_results.risk_details

-----------------------------------------------------------------------------
(* Claims about the metrics calculator                                     *)

MetricsDone == calculator # NoCalculator

\* C19: for every trade-record sequence that carries profit_loss, the
\* empty one, those lacking optional fields and those with
\* account_balance_before 0 included, compute_all_metrics returns without
\* raising.
C19_MetricsTotal ==
    MetricsDone => calculator.raised = "none"

\* the rows of the DataFrame with profit_loss in the set V
RowsIn(V) == {j \in DOMAIN df.profit_loss : df.profit_loss[j] \in V}

Positive == {x \in ProfitLossValues : x > 0}

Negative == {x \in ProfitLossValues : x < 0}

RECURSIVE SumRows(_)
SumRows(J) ==
    IF J = {} THEN 0
    ELSE LET j == CHOOSE x \in J : TRUE
         IN  df.profit_loss[j] + SumRows(J \ {j})

\* C20: compute_basic_metrics counts a trade as winning iff profit_loss > 0
\* and as losing iff profit_loss < 0, gives win_rate = winning/total*100 (0
\* when total = 0) and profit_factor = total_profit/total_loss, Infinity
\* when total_loss = 0 < total_profit and 0 when both are 0; profit_loss
\* [50, -30, 75, -20] gives win_rate 50, net_profit 75, profit_factor 2.5.
C20_BasicMetrics ==
    MetricsDone =>
        LET b      == calculator.basic
            total  == Len(df.profit_loss)
            profit == SumRows(RowsIn(Positive))
            loss   == -SumRows(RowsIn(Negative))
        IN  /\ b.total_trades = total
            /\ b.winning_trades = Cardinality(RowsIn(Positive))
            /\ b.losing_trades = Cardinality(RowsIn(Negative))
            /\ b.winning_trades + b.losing_trades <= total
            /\ IF total = 0
               THEN b.win_rate = Zero
               ELSE b.win_rate.num * total = b.winning_trades * 100 * b.win_rate.den
            /\ b.net_profit = SumRows(DOMAIN df.profit_loss)
            /\ IF loss # 0
               THEN /\ b.profit_factor.den # 0
                    /\ b.profit_factor.num * loss = profit * b.profit_factor.den
               ELSE b.profit_factor = IF profit > 0 THEN Infinity ELSE Zero
            /\ df.profit_loss = <<50, -30, 75, -20>>
                  => /\ b.win_rate.num = 50 * b.win_rate.den
                     /\ b.net_profit = 75
                     /\ 2 * b.profit_factor.num = 5 * b.profit_factor.den

\* C20 witness: the metrics of profit_loss [50, -30, 75, -20] have been
\* computed, with two winning and two losing trades.
C20_Witness ==
    /\ MetricsDone
    /\ df.profit_loss = <<50, -30, 75, -20>>
    /\ calculator.basic.winning_trades = 2
    /\ calculator.basic.losing_trades = 2
    /\ calculator.basic.total_profit = 125
    /\ calculator.basic.total_loss = 50

-----------------------------------------------------------------------------
(* Claims about the MT5 report parser                                      *)

ParsedDone == parsed # NotParsed

\* the rows of the document, as <<table index, position among the rows
\* that have cells>>
DocumentRows ==
    UNION {{<<i, j>> : j \in DOMAIN document[i].rows} : i \in DOMAIN document}

RowIndex(p) == document[p[1]].preamble + p[2] - 1

RowCells(p) == document[p[1]].rows[p[2]].cells

\* the number of keyword families among the cells of a row
FamiliesIn(cells) ==
    Cardinality({f \in {{"Time", "Open Time"}, {"Profit"}, {"Symbol"}, {"Type"},
                        {"Volume", "Size"}} : f \cap Range(cells) # {}})

\* the header candidates: rows among the first 50 of their table with a
\* keyword-family score of 3 or more
HeaderCandidates ==
    {p \in DocumentRows : RowIndex(p) < 50 /\ FamiliesIn(RowCells(p)) >= 3}

\* p comes before q in document order, or is q
NotAfter(p, q) == p[1] < q[1] \/ (p[1] = q[1] /\ p[2] <= q[2])

\* C21: parse_mt5_html selects, among the header candidates (rows within
\* the first 50 rows of a table with a keyword-family score >= 3), the one
\* with the highest score, the first in document order among equals; it
\* fails when no row of any table is a candidate.
C21_BestHeaderSelected ==
    ParsedDone =>
        IF HeaderCandidates = {}
        THEN parsed.raised = "no_table"
        ELSE /\ parsed.raised # "no_table"
             /\ \E p \in HeaderCandidates :
                  /\ parsed.header.idx = p[1]
                  /\ parsed.header.r_idx = RowIndex(p)
                  /\ parsed.header.score = FamiliesIn(RowCells(p))
                  /\ \A q \in HeaderCandidates :
                        \/ FamiliesIn(RowCells(q)) < FamiliesIn(RowCells(p))
                        \/ /\ FamiliesIn(RowCells(q)) = FamiliesIn(RowCells(p))
                           /\ NotAfter(p, q)

\* C21 witness: the header of the second table (score 5) has been selected
\* over the header in row 49 of the first table (score 3), and the trade
\* under it has been read.
C21_Witness ==
    /\ ParsedDone
    /\ Len(document) = 2
    /\ document[1] = [preamble |-> 49, rows |-> <<OrdersHeader>>]
    /\ document[2].rows = <<DealsHeader, DealRow>>
    /\ parsed.header = [score |-> 5, idx |-> 2, r_idx |-> 0]
    /\ Len(parsed.data) = 1

\* the table of the selected header and the position of the header in it
SelectedTable == document[parsed.header.idx]

HeaderPosition == parsed.header.r_idx - SelectedTable.preamble + 1

MappedIndices ==
    {parsed.col_map[f] : f \in {"entry_time", "exit_time", "symbol", "type", "volume",
                                "profit", "entry_price", "exit_price"}}

HighestMapped == CHOOSE x \in MappedIndices : \A y \in MappedIndices : y <= x

TypeOf(cells) ==
    IF parsed.col_map.type = -1 THEN "Unknown" ELSE cells[parsed.col_map.type + 1]

LowerCase(t) == IF t = "Balance" THEN "balance" ELSE t

\* the rows after the header row that make a record: enough cells, a
\* symbol, a type that is not balance, credit or total, and no exception
\* while the row is read (rows that fail to parse are the subject of C23)
RecordRows ==
    {j \in DOMAIN SelectedTable.rows :
        LET cells == SelectedTable.rows[j].cells
        IN  /\ j > HeaderPosition
            /\ Len(cells) > HighestMapped
            /\ cells[parsed.col_map.symbol + 1] # ""
            /\ TypeOf(cells) # ""
            /\ LowerCase(TypeOf(cells)) \notin {"balance", "credit", "total"}
            /\ ~SelectedTable.rows[j].raises}

\* the k-th of the record rows, in source order
KthRecordRow(k) ==
    CHOOSE j \in RecordRows : Cardinality({x \in RecordRows : x <= j}) = k

\* C22: the records returned are exactly the rows after the header row of
\* the selected table that have more cells than the highest mapped column
\* index, a non-empty symbol and type, and a type other than balance,
\* credit or total, in source row order with ids mt5_1..mt5_n; the header
\* [Open Time, Symbol, Type, Volume, Price, Profit] followed by one balance
\* row and three well-formed trade rows yields exactly 3 records.
C22_RecordsAreTradeRows ==
    (ParsedDone /\ parsed.raised = "none") =>
        /\ Len(parsed.data) = Cardinality(RecordRows)
        /\ \A k \in DOMAIN parsed.data :
              LET cells == SelectedTable.rows[KthRecordRow(k)].cells
              IN  /\ parsed.data[k].trade_id = <<"mt5", k>>
                  /\ parsed.data[k].symbol = cells[parsed.col_map.symbol + 1]
                  /\ parsed.data[k].trade_type = TypeOf(cells)
                  /\ parsed.data[k].entry_time
                        = clean_date(cells[parsed.col_map.entry_time + 1])
        /\ (/\ Len(SelectedTable.rows) = 5
            /\ SelectedTable.rows[1] = DealsHeader
            /\ SelectedTable.rows[2] = BalanceRow
            /\ \A j \in 3..5 : SelectedTable.rows[j] \in {PositionRow, DealRow})
              => Len(parsed.data) = 3

\* C22 witness: the deals header, a balance row and three trade rows have
\* been parsed into the three trades mt5_1..mt5_3.
C22_Witness ==
    /\ ParsedDone
    /\ document = <<[preamble |-> 0,
                     rows |-> <<DealsHeader, BalanceRow, DealRow, PositionRow, DealRow>>]>>
    /\ parsed.raised = "none"
    /\ Len(parsed.data) = 3
    /\ parsed.data[2].trade_id = <<"mt5", 2>>
    /\ parsed.data[2].symbol = "EURUSD"
    /\ parsed.data[3].symbol = "GBPUSD"

\* the rows after the header row that pass the checks of the row loop and
\* fail to parse
FailedRows ==
    {j \in DOMAIN SelectedTable.rows :
        LET cells == SelectedTable.rows[j].cells
        IN  /\ j > HeaderPosition
            /\ Len(cells) > HighestMapped
            /\ cells[parsed.col_map.symbol + 1] # ""
            /\ TypeOf(cells) # ""
            /\ LowerCase(TypeOf(cells)) \notin {"balance", "credit", "total"}
            /\ SelectedTable.rows[j].raises}

\* the selected header row has a profit-like column
ProfitColumnMapped ==
    \E j \in DOMAIN SelectedTable.rows[HeaderPosition].cells :
        SelectedTable.rows[HeaderPosition].cells[j] = "Profit"

\* C23: once a header row is selected, a row that fails to parse is counted
\* and passed over and the rows after it are still read; the parse raises
\* only when no profit-like column is mapped or when no valid record was
\* read, and the error of the second case carries the number of rows that
\* failed to parse.
C23_RowFailuresAccumulate ==
    (ParsedDone /\ parsed.raised # "no_table") =>
        /\ parsed.raised \in {"none", "no_profit", "no_trades"}
        /\ parsed.raised = "no_profit" <=> ~ProfitColumnMapped
        /\ ProfitColumnMapped =>
              /\ parsed.raised = "no_trades" <=> RecordRows = {}
              /\ Len(parsed.data) = Cardinality(RecordRows)
              /\ parsed.failures = Cardinality(FailedRows)

\* C23 witness: a row failed to parse between two trade rows, both trades
\* have been read and one failure counted.
C23_Witness ==
    /\ ParsedDone
    /\ document = <<[preamble |-> 0,
                     rows |-> <<DealsHeader, DealRow, RaisingRow, PositionRow>>]>>
    /\ parsed.raised = "none"
    /\ Len(parsed.data) = 2
    /\ parsed.data[2].symbol = "EURUSD"
    /\ parsed.failures = 1

HeaderCells == SelectedTable.rows[HeaderPosition].cells

\* the indices, counted from 0, of the header cells with a text in the set
ColumnsNamed(texts) == {j - 1 : j \in {x \in DOMAIN HeaderCells : HeaderCells[x] \in texts}}

Lowest(S) == CHOOSE x \in S : \A y \in S : x <= y

\* the fields first and second of col_map follow the two-versus-one rule
\* for the columns S
TwoVersusOne(S, first, second) ==
    /\ Cardinality(S) >= 2 =>
          /\ parsed.col_map[first] = Lowest(S)
          /\ parsed.col_map[second] = Lowest(S \ {Lowest(S)})
    /\ Cardinality(S) = 1 =>
          /\ parsed.col_map[first] = Lowest(S)
          /\ parsed.col_map[second] = Lowest(S)

\* C25: with at least two time-like columns the first maps to entry_time
\* and the second to exit_time, with exactly one both map to it; the same
\* rule holds for the price-like columns: with exactly one price column
\* both entry_price and exit_price are read from it.
C25_TwoVersusOneColumns ==
    (ParsedDone /\ parsed.raised # "no_table") =>
        /\ TwoVersusOne(ColumnsNamed({"Time", "Open Time"}), "entry_time", "exit_time")
        /\ TwoVersusOne(ColumnsNamed({"Price"}), "entry_price", "exit_price")
        /\ \A k \in DOMAIN parsed.data :
              Cardinality(ColumnsNamed({"Price"})) = 1
                 => parsed.data[k].exit_price = parsed.data[k].entry_price

-----------------------------------------------------------------------------
(* Claims about the analysis chain                                         *)

\* C24: for a fixed trade-record sequence, running compute_all_metrics,
\* detect_all_risks and calculate_score again, on fresh objects or on the
\* same objects, gives the same metrics, the same findings (detected_risks,
\* risk_details, total_risks) and the same score result: every result held
\* is the one a run on fresh objects gives.
C24_ChainDeterministic ==
    /\ calculator # NoCalculator => calculator = compute_all_metrics(df)
    /\ risk_results # NoRiskResults =>
          risk_results = detect_all_risks(EngineMetrics(calculator), <<0, 0>>)
    /\ score_result # NoResult =>
          score_result = calculate_score(
              detect_all_risks(EngineMetrics(calculator), <<0, 0>>).risk_details)

-----------------------------------------------------------------------------
(* Claims about the sync log and the connection counters                   *)

TerminalStatuses == {"success", "failed"}

\* the log of task t is completed: a terminal status, completed_at and the
\* duration set
Completed(t) ==
    /\ sync_logs[t].status \in TerminalStatuses
    /\ sync_logs[t].completed_at # 0
    /\ sync_logs[t].duration_seconds

\* a log is created by the task that loads its connection, in status
\* 'started', and a log with a terminal status is not changed
LogSteps ==
    \A t \in TaskIds :
        /\ (task[t].pc = "scheduled" /\ task'[t].pc # "scheduled")
              => (sync_logs[t] = NoLog /\ sync_logs'[t].status = "started")
        /\ (sync_logs[t].status # "started" /\ sync_logs'[t].status = "started")
              => task[t].pc = "scheduled"
        /\ sync_logs[t].status \in TerminalStatuses => sync_logs'[t] = sync_logs[t]

C29_StatusMatchesErrorCount ==
    \A c \in ConnectionIds :
        /\ connections[c].connection_status = "connected"
              => (connections[c].error_count = 0 /\ connections[c].last_error = "none")
        /\ connections[c].connection_status = "error"
              => (connections[c].error_count >= 1 /\ connections[c].last_error # "none")

\* the trade records stored for connection c
StoredFor(c) == {row \in deriv_trades : row.connection_id = c}

\* C30: after any sequence of sync runs on a connection executed one at a
\* time, each successful or failed at any step, total_trades_synced equals
\* the number of trade records stored for the connection, and every
\* successful sync log has trades_new + trades_updated = trades_fetched.
C30_TotalTradesSynced ==
    AllReturned =>
        /\ \A c \in ConnectionIds :
              connections[c].total_trades_synced = Cardinality(StoredFor(c))
        /\ \A t \in TaskIds :
              sync_logs[t].status = "success"
                 => sync_logs[t].trades_new + sync_logs[t].trades_updated
                       = sync_logs[t].trades_fetched

-----------------------------------------------------------------------------
(* Claims about the score of more findings and the counts of a result      *)

\* the findings without the finding f
Without(rd, f) == [k \in DOMAIN rd \ {f} |-> rd[k]]

\* C27: scoring is monotone in the findings: for every set S of findings,
\* the empty set included, and every further finding f of a weighted kind,
\* the score of S plus f is never higher than the score of S; no input with
\* a finding scores above the no-findings result.
C27_ScoreMonotone ==
    Scored =>
        \A f \in DOMAIN risk_details \cap WeightedKinds :
            score_result.score <= calculate_score(Without(risk_details, f)).score

\* C28: in every result of calculate_score, the no-findings result
\* included, the severity bucket counts sum to the number of entries in
\* breakdown, total_risks equals that number, and top_risks holds the at
\* most three breakdown entries with the largest contributions.
C28_BucketsAndTopRisks ==
    Scored =>
        LET n   == Cardinality(score_result.breakdown)
            top == {score_result.top_risks[j] : j \in DOMAIN score_result.top_risks}
        IN  /\ score_result.risk_breakdown.low + score_result.risk_breakdown.medium
                  + score_result.risk_breakdown.high = n
            /\ score_result.total_risks = n
            /\ Len(score_result.top_risks) = (IF n < 3 THEN n ELSE 3)
            /\ Cardinality(top) = Len(score_result.top_risks)
            /\ top \subseteq score_result.breakdown
            /\ \A k \in top, o \in score_result.breakdown \ top :
                  risk_details[k] * risk_weights[k] >= risk_details[o] * risk_weights[o]

====
